---- MODULE Spec2Model ----
(***************************************************************************)
(* A model of script.py of EnergyAnalysisWithPandas: a linear pipeline     *)
(* that lists the files of raw_data, loads each one as a DataFrame, stacks *)
(* them in a Panel (house x time x variable), prints statistics, derives   *)
(* the cumulative energy, the hourly average power and the load duration   *)
(* curve.                                                                  *)
(*                                                                         *)
(* A string is a sequence of one-character strings.  A float that the      *)
(* script computes by division is an exact fraction [num, den] in lowest   *)
(* terms; NaN is the fraction 0/0.  A DataFrame is [index, columns,        *)
(* values] with values a sequence of rows; a Panel is [items, major_axis,  *)
(* minor_axis, values] with values[i][t][v], all addressed by position as  *)
(* pandas does, the labels kept beside them.                               *)
(***************************************************************************)
EXTENDS Integers, Sequences, FiniteSets, TLC

VARIABLES
    raw_data,          \* the directory: in os.listdir order, <<name, file content>>
    file_names,        \* line 31
    dfs,               \* line 35
    house_names,       \* line 51
    pnl,               \* line 57, extended at line 78
    stats,             \* what lines 61-62 printed
    agg_hourly_power,  \* the table plotted at line 91
    load_duration,     \* lines 103-105
    load_duration_pct, \* the table plotted at line 106
    out,               \* what the run has printed or shown so far, in order
    energy_calls,      \* how many times the statement of line 78 has run
    err,               \* the exception that ended the run, "" if none
    pc                 \* the statement the run is at

vars == <<raw_data, file_names, dfs, house_names, pnl, stats, agg_hourly_power,
          load_duration, load_duration_pct, out, energy_calls, err, pc>>

----------------------------------------------------------------------------
(* Bounds of the model *)

MaxLen == 3          \* at most this many rows in a file

MaxNameLen == 5      \* at most this many characters in a file name

MaxEnergyCalls == 2  \* the statement of line 78 is run at most this many times

----------------------------------------------------------------------------
(* Program constants *)

dt == 120

size_bins == 200

----------------------------------------------------------------------------
(* Sequences and numbers *)

Range(s) == {s[i] : i \in 1..Len(s)}

Abs(n) == IF n < 0 THEN -n ELSE n

RECURSIVE GCD(_, _)
GCD(a, b) == IF b = 0 THEN a ELSE GCD(b, a % b)

RECURSIVE SortedSeq(_)
SortedSeq(S) ==
    IF S = {} THEN <<>>
    ELSE LET m == CHOOSE x \in S : \A y \in S : x <= y
         IN  <<m>> \o SortedSeq(S \ {m})

RECURSIVE SumSeq(_)
SumSeq(s) == IF s = <<>> THEN 0 ELSE s[1] + SumSeq(Tail(s))

IndexOf(s, x) == CHOOSE i \in 1..Len(s) : s[i] = x

(* Floats: exact fractions in lowest terms, NaN = 0/0 *)
NaN == [num |-> 0, den |-> 0]

Frac(n, d) ==
    IF d = 0 THEN NaN
    ELSE LET g == GCD(Abs(n), Abs(d))
             s == IF d < 0 THEN -1 ELSE 1
         IN  [num |-> (s * n) \div g, den |-> (s * d) \div g]

IsNaN(x) == x.den = 0

FMul(x, y) == IF IsNaN(x) \/ IsNaN(y) THEN NaN ELSE Frac(x.num * y.num, x.den * y.den)

FDiv(x, y) == IF IsNaN(x) \/ IsNaN(y) THEN NaN ELSE Frac(x.num * y.den, x.den * y.num)

FAdd(x, y) ==
    IF IsNaN(x) \/ IsNaN(y) THEN NaN
    ELSE Frac(x.num * y.den + y.num * x.den, x.den * y.den)

RECURSIVE FSum(_)
FSum(s) == IF s = <<>> THEN Frac(0, 1) ELSE FAdd(s[1], FSum(Tail(s)))

----------------------------------------------------------------------------
(* Strings and paths *)

dir_path == <<"r">>

os_path_join(d, x) == d \o <<"/">> \o x

(* os.path.split(x)[-1]: what follows the last "/" *)
os_path_split_last(x) ==
    LET slashes == {i \in 1..Len(x) : x[i] = "/"}
    IN  IF slashes = {} THEN x
        ELSE LET k == CHOOSE i \in slashes : \A j \in slashes : j <= i
             IN  SubSeq(x, k + 1, Len(x))

IsAt(s, sep, i) == i + Len(sep) - 1 <= Len(s) /\ SubSeq(s, i, i + Len(sep) - 1) = sep

(* s.split(sep)[0]: what precedes the first occurrence of sep, s if none *)
str_split_first(s, sep) ==
    LET hits == {i \in 1..Len(s) : IsAt(s, sep, i)}
    IN  IF hits = {} THEN s
        ELSE LET k == CHOOSE i \in hits : \A j \in hits : i <= j
             IN  SubSeq(s, 1, k - 1)

dot_csv == <<".", "c", "s", "v">>

(* a variant of house_name that cuts at the first dot *)
house_name_first_dot(x) == str_split_first(os_path_split_last(x), <<".">>)

(* the lambda of line 51 *)
house_name(x) == str_split_first(os_path_split_last(x), dot_csv)

----------------------------------------------------------------------------
(* The input files *)

(* a variant of hour that counts the hours from the first day on *)
hour_since_start(x) == (x[1] - 1) * 24 + x[2]

(* a timestamp is <<day, hour, minute>>; x.hour is its second field *)
hour(x) == x[2]

Before(a, b) ==
    \/ a[1] < b[1]
    \/ a[1] = b[1] /\ a[2] < b[2]
    \/ a[1] = b[1] /\ a[2] = b[2] /\ a[3] < b[3]

Timestamps == {<<1, 0, 0>>, <<1, 1, 0>>, <<2, 0, 2>>, <<2, 23, 58>>}

(* the measurements of one row: Power, Vrms, Irms *)
Measurements == {<<-50, 230, 1>>, <<150, 240, 2>>, <<455, 235, 3>>}

Header == <<"", "Power", "Vrms", "Irms">>

(* the contents a file may have: the header and up to n rows, the
   timestamps strictly increasing *)
Contents(n) ==
    { [header |-> Header, rows |-> r] :
        r \in { q \in UNION {[1..k -> {<<t>> \o m : t \in Timestamps, m \in Measurements}]
                                : k \in 0..n} :
                  \A i \in 1..(Len(q) - 1) : Before(q[i][1], q[i + 1][1]) } }

Alphabet == {"g", ".", "c", "s", "v"}

FileNames(n) ==
    UNION {[1..k -> Alphabet] : k \in 1..n} \ {<<".">>, <<".", ".">>}

house1_csv == <<"h", "1">> \o dot_csv

house2_csv == <<"h", "2">> \o dot_csv

----------------------------------------------------------------------------
(* pandas *)

(* pd.read_csv(x, index_col=0, parse_dates=True) on the content of a file *)
read_csv(content) ==
    [index   |-> [i \in 1..Len(content.rows) |-> content.rows[i][1]],
     columns |-> Tail(content.header),
     values  |-> [i \in 1..Len(content.rows) |-> Tail(content.rows[i])]]

(* the shape of x.values *)
Shape(df) == <<Len(df.values), Len(df.columns)>>

NoPanel == [items |-> <<>>, major_axis |-> <<>>, minor_axis |-> <<>>, values |-> <<>>]

(* pd.Panel(list of 2-D arrays, items, major_axis, minor_axis): numpy stacks
   the arrays; arrays of unlike shapes do not make a 3-D array and axes of
   the wrong length do not fit it, and pandas raises ValueError *)
PanelFits(data, shapes, items, major_axis, minor_axis) ==
    /\ \A i \in 1..Len(shapes) : shapes[i] = shapes[1]
    /\ Len(items) = Len(data)
    /\ Len(major_axis) = shapes[1][1]
    /\ Len(minor_axis) = shapes[1][2]

(* a variant of Panel that labels the items in the opposite order *)
Panel_items_reversed(data, items, major_axis, minor_axis) ==
    [items |-> [i \in 1..Len(items) |-> items[Len(items) + 1 - i]],
     major_axis |-> major_axis, minor_axis |-> minor_axis, values |-> data]

Panel(data, items, major_axis, minor_axis) ==
    [items |-> items, major_axis |-> major_axis, minor_axis |-> minor_axis,
     values |-> data]

(* pnl.ix[:, :, v]: a DataFrame, time down, items across *)
ix_minor(p, v) ==
    LET k == IndexOf(p.minor_axis, v)
    IN  [index   |-> p.major_axis,
         columns |-> p.items,
         values  |-> [t \in 1..Len(p.major_axis) |->
                        [i \in 1..Len(p.items) |-> p.values[i][t][k]]]]

(* pnl.ix[n, :, v]: a Series over time *)
ix_item_minor(p, n, v) ==
    LET k == IndexOf(p.minor_axis, v)
        i == IndexOf(p.items, n)
    IN  [index  |-> p.major_axis,
         values |-> [t \in 1..Len(p.major_axis) |-> p.values[i][t][k]]]

(* a variant of ix_minor_set that always appends a slice *)
ix_minor_set_append(p, v, df) ==
    [p EXCEPT !.minor_axis = Append(p.minor_axis, v),
              !.values = [i \in 1..Len(p.items) |->
                            [t \in 1..Len(p.major_axis) |->
                               Append(p.values[i][t], df.values[t][i])]]]

(* a variant of ix_minor_set that, enlarging the minor axis, loses the
   values of the variable that was last *)
ix_minor_set_lossy(p, v, df) ==
    IF v \in Range(p.minor_axis)
    THEN [p EXCEPT !.values = [i \in 1..Len(p.items) |->
                                 [t \in 1..Len(p.major_axis) |->
                                    [p.values[i][t] EXCEPT
                                       ![IndexOf(p.minor_axis, v)] = df.values[t][i]]]]]
    ELSE [p EXCEPT !.minor_axis = Append(p.minor_axis, v),
                   !.values = [i \in 1..Len(p.items) |->
                                 [t \in 1..Len(p.major_axis) |->
                                    Append([p.values[i][t] EXCEPT ![Len(p.minor_axis)] = 0],
                                           df.values[t][i])]]]

(* pnl.ix[:, :, v] = df: a new label is appended to the minor axis, the
   slice of a label already there is overwritten; df is aligned on labels *)
ix_minor_set(p, v, df) ==
    LET cell(i, t) == df.values[IndexOf(df.index, p.major_axis[t])]
                               [IndexOf(df.columns, p.items[i])]
    IN  IF v \in Range(p.minor_axis)
        THEN LET k == IndexOf(p.minor_axis, v)
             IN  [p EXCEPT !.values =
                     [i \in 1..Len(p.items) |->
                        [t \in 1..Len(p.major_axis) |->
                           [p.values[i][t] EXCEPT ![k] = cell(i, t)]]]]
        ELSE [p EXCEPT !.minor_axis = Append(p.minor_axis, v),
                       !.values =
                     [i \in 1..Len(p.items) |->
                        [t \in 1..Len(p.major_axis) |->
                           Append(p.values[i][t], cell(i, t))]]]

(* pnl.mean() and pnl.max(): over time, variables down, items across *)
Column(p, i, k) == [t \in 1..Len(p.major_axis) |-> p.values[i][t][k]]

panel_mean(p) ==
    [index   |-> p.minor_axis,
     columns |-> p.items,
     values  |-> [k \in 1..Len(p.minor_axis) |->
                    [i \in 1..Len(p.items) |->
                       Frac(SumSeq(Column(p, i, k)), Len(p.major_axis))]]]

panel_max(p) ==
    [index   |-> p.minor_axis,
     columns |-> p.items,
     values  |-> [k \in 1..Len(p.minor_axis) |->
                    [i \in 1..Len(p.items) |->
                       IF p.major_axis = <<>> THEN NaN
                       ELSE LET c == Range(Column(p, i, k))
                            IN  Frac(CHOOSE x \in c : \A y \in c : y <= x, 1)]]]

(* (pnl.ix[:,:,'Power']*dt).apply(np.cumsum)*J_2_kWh, lines 76-78 *)
J_2_kWh == FDiv(FDiv(Frac(1, 1), Frac(3600, 1)), Frac(1000, 1))

times_dt(df) ==
    [df EXCEPT !.values = [t \in 1..Len(df.index) |->
                             [i \in 1..Len(df.columns) |-> df.values[t][i] * dt]]]

RECURSIVE cumsum(_)
cumsum(s) ==
    IF s = <<>> THEN <<>>
    ELSE LET n    == Len(s)
             head == cumsum(SubSeq(s, 1, n - 1))
         IN  Append(head, IF n = 1 THEN s[1] ELSE head[n - 1] + s[n])

(* a variant of apply_cumsum that sums along each row, across the houses *)
apply_cumsum_across(df) ==
    [df EXCEPT !.values = [t \in 1..Len(df.index) |-> cumsum(df.values[t])]]

(* df.apply(np.cumsum): down each column *)
apply_cumsum(df) ==
    LET col(i) == cumsum([t \in 1..Len(df.index) |-> df.values[t][i]])
    IN  [df EXCEPT !.values = [t \in 1..Len(df.index) |->
                                 [i \in 1..Len(df.columns) |-> col(i)[t]]]]

times_float(df, c) ==
    [df EXCEPT !.values = [t \in 1..Len(df.index) |->
                             [i \in 1..Len(df.columns) |->
                                FMul(Frac(df.values[t][i], 1), c)]]]

energy_kWh(p) == times_float(apply_cumsum(times_dt(ix_minor(p, "Power"))), J_2_kWh)

(* df.groupby(by=[df.index.map(lambda x: x.hour)]).mean(), lines 88-91: one
   row per hour that occurs, in increasing order *)
groupby_hour_mean(df) ==
    LET hours   == SortedSeq({hour(df.index[t]) : t \in 1..Len(df.index)})
        rows(h) == {t \in 1..Len(df.index) : hour(df.index[t]) = h}
        col(i)  == [t \in 1..Len(df.index) |-> df.values[t][i]]
        total(h, i) == SumSeq([t \in 1..Len(df.index) |->
                                 IF t \in rows(h) THEN col(i)[t] ELSE 0])
    IN  [index   |-> hours,
         columns |-> df.columns,
         values  |-> [j \in 1..Len(hours) |->
                        [i \in 1..Len(df.columns) |->
                           Frac(total(hours[j], i), Cardinality(rows(hours[j])))]]]

(* a variant of bin_of whose division rounds towards zero *)
bin_of_truncating(x) ==
    IF x < 0 THEN -(size_bins * ((-x) \div size_bins)) ELSE size_bins * (x \div size_bins)

(* the lambda of line 102: size_bins*(x//size_bins), // rounding down *)
bin_of(x) == size_bins * (x \div size_bins)

(* series.groupby(by=[series.apply(bin_of)]).count(), line 102: a Series
   over the bins that occur, in increasing order *)
groupby_bin_count(series) ==
    LET bins == SortedSeq({bin_of(series.values[t]) : t \in 1..Len(series.values)})
    IN  [index  |-> bins,
         values |-> [j \in 1..Len(bins) |->
                       Cardinality({t \in 1..Len(series.values) :
                                      bin_of(series.values[t]) = bins[j]})]]

(* line 102 *)
loads_aggregated_of(p) ==
    [j \in 1..Len(p.items) |-> groupby_bin_count(ix_item_minor(p, p.items[j], "Power"))]

(* pd.concat(list of Series, axis=1), line 103: the outer join of the
   indexes, one column per Series in the order of the list, NaN where a
   Series has no entry *)
concat_axis1(series) ==
    LET bins == SortedSeq(UNION {Range(series[j].index) : j \in 1..Len(series)})
    IN  [index   |-> bins,
         columns |-> [j \in 1..Len(series) |-> j - 1],
         values  |-> [b \in 1..Len(bins) |->
                        [j \in 1..Len(series) |->
                           IF bins[b] \in Range(series[j].index)
                           THEN Frac(series[j].values[IndexOf(series[j].index, bins[b])], 1)
                           ELSE NaN]]]

(* load_duration.columns = pnl.items.tolist(), line 104 *)
set_columns(df, labels) == [df EXCEPT !.columns = labels]

(* load_duration.fillna(0, inplace=True), line 105 *)
fillna0(df) ==
    [df EXCEPT !.values = [b \in 1..Len(df.index) |->
                             [j \in 1..Len(df.columns) |->
                                IF IsNaN(df.values[b][j]) THEN Frac(0, 1)
                                ELSE df.values[b][j]]]]

(* a variant of percent_of_sum that divides by the sum of the whole table *)
percent_of_total(df) ==
    LET total == FSum([b \in 1..Len(df.index) |->
                         FSum([j \in 1..Len(df.columns) |-> df.values[b][j]])])
    IN  [df EXCEPT !.values = [b \in 1..Len(df.index) |->
                                 [j \in 1..Len(df.columns) |->
                                    FDiv(FMul(df.values[b][j], Frac(100, 1)), total)]]]

(* load_duration*100.0/load_duration.sum(), line 106: each column divided
   by its own sum *)
percent_of_sum(df) ==
    LET sum(j) == FSum([b \in 1..Len(df.index) |-> df.values[b][j]])
    IN  [df EXCEPT !.values = [b \in 1..Len(df.index) |->
                                 [j \in 1..Len(df.columns) |->
                                    FDiv(FMul(df.values[b][j], Frac(100, 1)), sum(j))]]]

NoFrame == [index |-> <<>>, columns |-> <<>>, values |-> <<>>]

----------------------------------------------------------------------------
(* The run *)

Fail(e) == err' = e /\ pc' = "failed"

(* line 31 *)
ListFiles ==
    /\ pc = "file_names"
    /\ file_names' = [i \in 1..Len(raw_data) |-> os_path_join(dir_path, raw_data[i][1])]
    /\ pc' = "dfs"
    /\ UNCHANGED <<raw_data, dfs, house_names, pnl, stats, agg_hourly_power,
                   load_duration, load_duration_pct, out, energy_calls, err>>

(* what the file system holds at a path *)
FileAt(x) ==
    LET i == CHOOSE j \in 1..Len(raw_data) : os_path_join(dir_path, raw_data[j][1]) = x
    IN  raw_data[i][2]

(* line 35 *)
LoadTables ==
    /\ pc = "dfs"
    /\ dfs' = [i \in 1..Len(file_names) |-> read_csv(FileAt(file_names[i]))]
    /\ pc' = "house_names"
    /\ UNCHANGED <<raw_data, file_names, house_names, pnl, stats, agg_hourly_power,
                   load_duration, load_duration_pct, out, energy_calls, err>>

(* line 51 *)
HouseNames ==
    /\ pc = "house_names"
    /\ house_names' = [i \in 1..Len(file_names) |-> house_name(file_names[i])]
    /\ pc' = "pnl"
    /\ UNCHANGED <<raw_data, file_names, dfs, pnl, stats, agg_hourly_power,
                   load_duration, load_duration_pct, out, energy_calls, err>>

(* line 57 *)
BuildPanel ==
    /\ pc = "pnl"
    /\ LET data   == [i \in 1..Len(dfs) |-> dfs[i].values]
           shapes == [i \in 1..Len(dfs) |-> Shape(dfs[i])]
       IN  IF PanelFits(data, shapes, house_names, dfs[1].index, dfs[1].columns)
           THEN /\ pnl' = Panel(data, house_names, dfs[1].index, dfs[1].columns)
                /\ pc' = "stats"
                /\ err' = err
           ELSE /\ pnl' = pnl
                /\ Fail("ValueError")
    /\ UNCHANGED <<raw_data, file_names, dfs, house_names, stats, agg_hourly_power,
                   load_duration, load_duration_pct, out, energy_calls>>

(* lines 61-62 *)
PrintStats ==
    /\ pc = "stats"
    /\ stats' = [mean |-> panel_mean(pnl), max |-> panel_max(pnl)]
    /\ out' = out \o <<"print mean", "print max">>
    /\ pc' = "plot_power"
    /\ UNCHANGED <<raw_data, file_names, dfs, house_names, pnl, agg_hourly_power,
                   load_duration, load_duration_pct, energy_calls, err>>

(* DataFrame.plot raises TypeError for a frame with nothing in it *)
CanPlot(df) == df.index # <<>> /\ df.columns # <<>>

(* lines 65-69 *)
PlotPower ==
    /\ pc = "plot_power"
    /\ IF CanPlot(ix_minor(pnl, "Power"))
       THEN /\ out' = Append(out, "plot Power")
            /\ pc' = "energy"
            /\ err' = err
       ELSE /\ out' = out
            /\ Fail("TypeError")
    /\ UNCHANGED <<raw_data, file_names, dfs, house_names, pnl, stats, agg_hourly_power,
                   load_duration, load_duration_pct, energy_calls>>

(* lines 76-78, the Energy derivation.  The script runs the statement once;
   run again on the same Panel it does the same assignment, and the model
   lets it run up to MaxEnergyCalls times before the run goes on. *)
EnergyDerivation ==
    /\ pc = "energy"
    /\ energy_calls < MaxEnergyCalls
    /\ pnl' = ix_minor_set(pnl, "Energy", energy_kWh(pnl))
    /\ energy_calls' = energy_calls + 1
    /\ \/ pc' = "plot_energy"
       \/ energy_calls + 1 < MaxEnergyCalls /\ pc' = "energy"
    /\ UNCHANGED <<raw_data, file_names, dfs, house_names, stats, agg_hourly_power,
                   load_duration, load_duration_pct, out, err>>

(* lines 81-85 *)
PlotEnergy ==
    /\ pc = "plot_energy"
    /\ out' = Append(out, "plot Energy")
    /\ pc' = "agg_hourly_power"
    /\ UNCHANGED <<raw_data, file_names, dfs, house_names, pnl, stats, agg_hourly_power,
                   load_duration, load_duration_pct, energy_calls, err>>

(* lines 88-95 *)
HourlyPower ==
    /\ pc = "agg_hourly_power"
    /\ agg_hourly_power' = groupby_hour_mean(ix_minor(pnl, "Power"))
    /\ out' = Append(out, "plot hourly Power")
    /\ pc' = "load_duration"
    /\ UNCHANGED <<raw_data, file_names, dfs, house_names, pnl, stats,
                   load_duration, load_duration_pct, energy_calls, err>>

(* lines 101-110 *)
LoadDuration ==
    /\ pc = "load_duration"
    /\ LET ld == fillna0(set_columns(concat_axis1(loads_aggregated_of(pnl)), pnl.items))
       IN  /\ load_duration' = ld
           /\ load_duration_pct' = percent_of_sum(ld)
    /\ out' = Append(out, "plot load duration")
    /\ pc' = "done"
    /\ UNCHANGED <<raw_data, file_names, dfs, house_names, pnl, stats,
                   agg_hourly_power, energy_calls, err>>

Next ==
    \/ ListFiles
    \/ LoadTables
    \/ HouseNames
    \/ BuildPanel
    \/ PrintStats
    \/ PlotPower
    \/ EnergyDerivation
    \/ PlotEnergy
    \/ HourlyPower
    \/ LoadDuration

Start ==
    /\ file_names = <<>>
    /\ dfs = <<>>
    /\ house_names = <<>>
    /\ pnl = NoPanel
    /\ stats = [mean |-> NoFrame, max |-> NoFrame]
    /\ agg_hourly_power = NoFrame
    /\ load_duration = NoFrame
    /\ load_duration_pct = NoFrame
    /\ out = <<>>
    /\ energy_calls = 0
    /\ err = ""
    /\ pc = "file_names"

(* two houses, each file with any content, listed in either order *)
Init ==
    /\ \E a, b \in Contents(MaxLen) :
          raw_data \in { <<<<house1_csv, a>>, <<house2_csv, b>>>>,
                         <<<<house2_csv, b>>, <<house1_csv, a>>>> }
    /\ Start

Spec == Init /\ [][Next]_vars

(* two aligned files, one of them with any name, listed in either order *)
ContentA == [header |-> Header,
             rows |-> << <<<<1, 0, 0>>, -50, 230, 1>>, <<<<1, 1, 0>>, 150, 240, 2>> >>]

ContentB == [header |-> Header,
             rows |-> << <<<<1, 0, 0>>, 455, 235, 3>>, <<<<1, 1, 0>>, 455, 240, 2>> >>]

InitNames ==
    /\ \E n \in FileNames(MaxNameLen) :
          raw_data \in { <<<<house1_csv, ContentA>>, <<n, ContentB>>>>,
                         <<<<n, ContentB>>, <<house1_csv, ContentA>>>> }
    /\ Start

SpecNames == InitNames /\ [][Next]_vars

----------------------------------------------------------------------------
(* What the claims speak of *)

Built == pnl.items # <<>>

PastBuild == pc \notin {"file_names", "dfs", "house_names", "pnl"}

(* the time index and the measurements written in the file listed f-th *)
FileIndex(f) == [t \in 1..Len(raw_data[f][2].rows) |-> raw_data[f][2].rows[t][1]]

FileValue(f, t, k) == raw_data[f][2].rows[t][k + 1]

Aligned == \A f, g \in 1..Len(raw_data) : FileIndex(f) = FileIndex(g)

HasEnergy == "Energy" \in Range(pnl.minor_axis)

(* the Power samples of the i-th item of the Panel *)
PowerOf(i) == [t \in 1..Len(pnl.major_axis) |-> pnl.values[i][t][1]]

Houses == 1..Len(pnl.items)

Times == 1..Len(pnl.major_axis)

(* C1: whenever the time index of one house differs from that of another,
   in length or in any timestamp, building the Panel fails and no Panel is
   built. *)
C1_MisalignedFails ==
    (PastBuild /\ ~Aligned) => (pc = "failed" /\ err = "ValueError" /\ ~Built)

(* C6: nothing is reported unless the full aligned Panel has been built,
   and a run that ends in a failure has reported nothing. *)
C6_NoPartialOutput ==
    /\ out # <<>> => (Built /\ Aligned)
    /\ pc = "failed" => out = <<>>

(* C5: when every file has the same time index (and the same variables),
   the Panel is built, its time index is the time index of every file, in
   the same order, and each cell holds the value of the file the item is
   named after. *)
KeyOfListed(f) == IF raw_data[f][1] = house1_csv THEN <<"h", "1">> ELSE <<"h", "2">>

C5_AlignedPanel ==
    (PastBuild /\ Aligned) =>
        /\ Built
        /\ err # "ValueError"
        /\ \A f \in 1..Len(raw_data) :
              /\ pnl.major_axis = FileIndex(f)
              /\ \E i \in Houses :
                    /\ pnl.items[i] = KeyOfListed(f)
                    /\ \A t \in Times : \A k \in 1..3 :
                          /\ pnl.minor_axis[k] = Header[k + 1]
                          /\ pnl.values[i][t][k] = FileValue(f, t, k)

C5_Witness ==
    /\ PastBuild /\ Aligned /\ Built
    /\ raw_data[1][1] = house2_csv
    /\ Len(pnl.major_axis) >= 2
    /\ PowerOf(1) # PowerOf(2)

(* C9: the Energy derivation adds the variable Energy and leaves the items,
   the time index and every value of the variables already there as they
   were. *)
C9_EnergyFrame ==
    [][ pc = "energy" =>
          /\ pnl'.items = pnl.items
          /\ pnl'.major_axis = pnl.major_axis
          /\ "Energy" \in Range(pnl'.minor_axis)
          /\ ~HasEnergy => pnl'.minor_axis = Append(pnl.minor_axis, "Energy")
          /\ \A k \in 1..Len(pnl.minor_axis) :
                /\ pnl'.minor_axis[k] = pnl.minor_axis[k]
                /\ pnl.minor_axis[k] # "Energy" =>
                      \A i \in Houses : \A t \in Times :
                          pnl'.values[i][t][k] = pnl.values[i][t][k] ]_vars

C9_Witness ==
    /\ HasEnergy /\ energy_calls = 1
    /\ Len(pnl.major_axis) >= 2
    /\ pnl.minor_axis = <<"Power", "Vrms", "Irms", "Energy">>

EnergyOf(i, t) == pnl.values[i][t][IndexOf(pnl.minor_axis, "Energy")]

C3_EnergyRunningSum ==
    HasEnergy =>
        \A i \in Houses : \A t \in Times :
            /\ EnergyOf(i, t).den > 0
            /\ EnergyOf(i, t).num * 3600000
                 = EnergyOf(i, t).den * SumSeq([k \in 1..t |-> PowerOf(i)[k] * dt])
            /\ t = 1 => EnergyOf(i, t).num * 3600000 = EnergyOf(i, t).den * PowerOf(i)[1] * dt
            /\ (\A k \in Times : PowerOf(i)[k] = PowerOf(i)[1]) =>
                  EnergyOf(i, t).num * 3600000 = EnergyOf(i, t).den * t * PowerOf(i)[1] * dt

C3_Witness ==
    /\ HasEnergy
    /\ Len(pnl.major_axis) >= 3
    /\ \A k \in Times : PowerOf(1)[k] = 150
    /\ PowerOf(2)[1] # PowerOf(2)[2]

(* C4: for every house the load-duration percentages over all the bins add
   up to 100 and none is negative, also with negative Power and with
   samples in bins no other house uses. *)
PctOf(b, j) == load_duration_pct.values[b][j]

C4_PercentagesSumTo100 ==
    pc = "done" =>
        \A j \in 1..Len(load_duration_pct.columns) :
            /\ \A b \in 1..Len(load_duration_pct.index) :
                  PctOf(b, j).den > 0 /\ PctOf(b, j).num >= 0
            /\ FSum([b \in 1..Len(load_duration_pct.index) |-> PctOf(b, j)]) = Frac(100, 1)

C4_Witness ==
    /\ pc = "done"
    /\ Len(load_duration_pct.columns) = 2
    /\ \E t \in Times : PowerOf(1)[t] < 0
    /\ \E b \in 1..Len(load_duration_pct.index) :
          PctOf(b, 1).num > 0 /\ PctOf(b, 2).num = 0
    /\ \E b \in 1..Len(load_duration_pct.index) :
          PctOf(b, 1).num > 0 /\ PctOf(b, 1) # Frac(100, 1)

(* C7: the hourly table has, for each house, one entry for each hour of the
   day (0-23, the date ignored) in which there is a sample, the mean of the
   Power samples of that house in that hour, and no entry for any other
   hour. *)
SamplesIn(h) == {t \in Times : pnl.major_axis[t][2] = h}

C7_HourlyMean ==
    pc \in {"load_duration", "done"} =>
        /\ agg_hourly_power.columns = pnl.items
        /\ Range(agg_hourly_power.index) = {h \in 0..23 : SamplesIn(h) # {}}
        /\ Len(agg_hourly_power.index) = Cardinality(Range(agg_hourly_power.index))
        /\ \A j \in 1..Len(agg_hourly_power.index) : \A i \in Houses :
              LET h == agg_hourly_power.index[j]
                  m == agg_hourly_power.values[j][i]
              IN  /\ m.den > 0
                  /\ m.num * Cardinality(SamplesIn(h))
                       = m.den * SumSeq([t \in Times |->
                                           IF t \in SamplesIn(h) THEN PowerOf(i)[t] ELSE 0])

C7_Witness ==
    /\ pc = "done"
    /\ agg_hourly_power.index = <<0, 1>>
    /\ Cardinality(SamplesIn(0)) = 2
    /\ \E i \in Houses : agg_hourly_power.values[1][i].den = 2

(* C8: in the load-duration table every Power sample of a house is counted
   in the bin floor(Power/size_bins), the bins of the table are the bins of
   all the houses together, a house with no sample in one of them has 0
   there, and each column holds the counts of the house it is named after. *)
InBin(x, b) == b <= x /\ x < b + size_bins

BinsOf(i) == {b \in {size_bins * n : n \in -3..3} : \E t \in Times : InBin(PowerOf(i)[t], b)}

C8_LoadDurationTable ==
    pc = "done" =>
        /\ load_duration.columns = pnl.items
        /\ Range(load_duration.index) = UNION {BinsOf(i) : i \in Houses}
        /\ Len(load_duration.index) = Cardinality(Range(load_duration.index))
        /\ \A b \in 1..Len(load_duration.index) : \A i \in Houses :
              load_duration.values[b][i] =
                  [num |-> Cardinality({t \in Times :
                                          InBin(PowerOf(i)[t], load_duration.index[b])}),
                   den |-> 1]

C8_Witness ==
    /\ pc = "done"
    /\ Len(load_duration.index) >= 2
    /\ \E t \in Times : PowerOf(1)[t] < 0
    /\ \E b \in 1..Len(load_duration.index) :
          load_duration.values[b][1].num = 2 /\ load_duration.values[b][2].num = 0

(* C10 as claimed: the key of every file is its base name with the
   extension stripped (what follows the last dot, the dots a name starts
   with aside), and the key labels the table loaded from that file. *)
StripExtension(n) ==
    LET dots == {i \in 1..Len(n) : n[i] = "." /\ \E j \in 1..(i - 1) : n[j] # "."}
    IN  IF dots = {} THEN n
        ELSE SubSeq(n, 1, (CHOOSE i \in dots : \A j \in dots : j <= i) - 1)

KeyLabelsItsTable(f) ==
    /\ pnl.items[f] = house_names[f]
    /\ \A t \in Times : \A k \in 1..3 : pnl.values[f][t][k] = FileValue(f, t, k)

HasDotCsvAt(n, i) ==
    /\ i + 3 <= Len(n)
    /\ n[i] = "." /\ n[i + 1] = "c" /\ n[i + 2] = "s" /\ n[i + 3] = "v"

====
